---- MODULE Spec2Model ----
(***************************************************************************)
(* A model of the y86 instruction-cycle engine of src/src/lib.rs:          *)
(* Machine::new, Machine::load's memory image, the six stages of a cycle   *)
(* (fetch, decode, execute, memory, writeback, pc_update) and the cycle    *)
(* driver Machine::run.                                                    *)
(*                                                                         *)
(* A machine word (isize / usize, 64 bits) is a tuple of four 16-bit limbs,*)
(* least significant first; a byte is a number in 0..255.                  *)
(***************************************************************************)
EXTENDS Integers, Sequences, FiniteSets, TLC

VARIABLES
    mem, regs, flags, status, cycle, pc, step_mode,  \* the fields of Machine
    cycle_state,      \* the CycleState of the last cycle of this call of run
    prev_cycle,       \* history: the CycleState of the cycle before it
    result,           \* where the caller stands with run: Idle, Running, Ok, Err, Panic
    error,            \* the error that ended this call of run, "" when there is none
    runs,             \* how often run was called
    overflow_checks,  \* the build panics on arithmetic overflow (a debug build)
    stage,            \* the stage that run executes next; Head is the loop condition
    head,             \* history: the machine at the head of this pass of the loop
                      \* of a stage-by-stage run, else the machine as loaded
    line              \* the line of the object file that load read last

vars == <<mem, regs, flags, status, cycle, pc, step_mode,
          cycle_state, prev_cycle, result, error, runs, overflow_checks, stage, head,
          line>>

\* ------------------------------------------------------------ bounds
\* mem_size given to Machine::new: any usize, here not a multiple of the word size
MemSize == 60
\* the cycle counter is capped so that looping programs stay finite
MaxCycles == 6
\* how often the caller calls run on one machine
MaxRuns == 2

\* ------------------------------------------------- program constants
RSP == 4
NumRegs == 15
\* size_of::<usize>() of a 64-bit target, the one fetch's lengths 9 and 10 fit
WordSize == 8
LimbBase == 2^16
ByteBase == 2^8

\* ------------------------------------------------------------- words
Limbs == 1..4

W(n) == <<n, 0, 0, 0>>

ZeroW == W(0)
MinusOneW == <<65535, 65535, 65535, 65535>>
MaxW == <<65535, 65535, 65535, 32767>>
MinW == <<0, 0, 0, 32768>>

\* -n for a small n > 0, as a two's-complement word
NegW(n) == <<LimbBase - n, 65535, 65535, 65535>>

\* res < 0 on an isize
IsNeg(w) == w[4] >= 32768

\* the carry into limb i of a + b + cin
RECURSIVE CarryInto(_, _, _, _)
CarryInto(a, b, cin, i) ==
    IF i = 1 THEN cin
    ELSE (a[i - 1] + b[i - 1] + CarryInto(a, b, cin, i - 1)) \div LimbBase

\* a + b + cin modulo 2^64
AddC(a, b, cin) == [i \in Limbs |-> (a[i] + b[i] + CarryInto(a, b, cin, i)) % LimbBase]

\* the carry out of the top limb of a + b + cin: the unsigned sum overflowed
CarryOut(a, b, cin) == (a[4] + b[4] + CarryInto(a, b, cin, 4)) \div LimbBase

\* ~b
NotW(b) == [i \in Limbs |-> LimbBase - 1 - b[i]]

wrapping_add(a, b) == AddC(a, b, 0)
wrapping_sub(a, b) == AddC(a, NotW(b), 1)

\* isize::overflowing_add, isize::overflowing_sub: (wrapped result, overflowed)
overflowing_add(a, b) ==
    LET res == wrapping_add(a, b)
    IN  <<res, IsNeg(a) = IsNeg(b) /\ IsNeg(res) # IsNeg(a)>>

overflowing_sub(a, b) ==
    LET res == wrapping_sub(a, b)
    IN  <<res, IsNeg(a) # IsNeg(b) /\ IsNeg(res) # IsNeg(a)>>

\* the bitwise operators, bit by bit on a limb
RECURSIVE BitOp(_, _, _, _)
BitOp(f, x, y, n) ==
    IF n = 0 THEN 0
    ELSE (IF f = "and" THEN (IF x % 2 = 1 /\ y % 2 = 1 THEN 1 ELSE 0)
                       ELSE (IF x % 2 # y % 2 THEN 1 ELSE 0))
         + 2 * BitOp(f, x \div 2, y \div 2, n - 1)

AndW(a, b) == [i \in Limbs |-> BitOp("and", a[i], b[i], 16)]
XorW(a, b) == [i \in Limbs |-> BitOp("xor", a[i], b[i], 16)]

\* a usize that fits one limb, as a number; any other usize is at least 2^16
Small(w) == w[2] = 0 /\ w[3] = 0 /\ w[4] = 0
Num(w) == w[1]

\* usize + k for a small k: (wrapped result, overflowed)
AddU(w, k) == <<AddC(w, W(k), 0), CarryOut(w, W(k), 0) = 1>>

\* ----------------------------------------------------- machine state
\* the fields of Machine that the stages read and write
Machine == [mem |-> mem, regs |-> regs, flags |-> flags, status |-> status,
            cycle |-> cycle, pc |-> pc]

\* the CycleState literal that run creates at the start of every cycle
NewCycleState ==
    [op |-> "Halt", fun |-> "None", r_a |-> 0, r_b |-> 0, val_c |-> ZeroW,
     val_p |-> ZeroW, val_a |-> ZeroW, val_b |-> ZeroW, val_e |-> ZeroW,
     val_m |-> ZeroW, cnd |-> FALSE]

\* what a stage hands back: Ok(()) is err = "", anyhow::bail!(msg) is err = msg,
\* an arithmetic-overflow panic of a build with overflow checks is err = PanicMsg
PanicMsg == "panic: arithmetic overflow"
Done(m, st) == [err |-> "", m |-> m, st |-> st]
Bail(m, st, msg) == [err |-> msg, m |-> m, st |-> st]

\* self.mem.get(i) / self.mem.get_mut(i) is Some for a usize i
MemHas(m, w) == Small(w) /\ Num(w) < MemSize

\* self.regs.get(i) / self.regs.get_mut(i) is Some
RegHas(i) == i < NumRegs

\* byte j (0-based) of word.to_le_bytes()
to_le_bytes(word) ==
    [j \in 0..(WordSize - 1) |->
        IF j % 2 = 0 THEN word[(j \div 2) + 1] % ByteBase
                     ELSE word[(j \div 2) + 1] \div ByteBase]

\* word |= (byte as isize) << (i << 3), for the eight bytes from index a
FromBytes(m, a) ==
    [k \in Limbs |-> m.mem[a + 2 * (k - 1)] + ByteBase * m.mem[a + 2 * (k - 1) + 1]]

\* the range addr..addr + wordsize is inside the memory slice
RangeOk(addr) ==
    LET end == AddU(addr, WordSize)
    IN  /\ ~end[2]
        /\ Small(end[1])
        /\ Num(end[1]) <= MemSize

\* addr + wordsize overflows usize
RangeOverflows(addr) == AddU(addr, WordSize)[2]

get_mem_word(m, addr, oc) ==
    IF RangeOverflows(addr) /\ oc THEN [err |-> PanicMsg, val |-> ZeroW]
    ELSE IF ~RangeOk(addr) THEN [err |-> "get word: bad addr", val |-> ZeroW]
    ELSE [err |-> "", val |-> FromBytes(m, Num(addr))]

\* a word write that starts one byte late
set_mem_word_NextByte(m, addr, word, oc) ==
    IF RangeOverflows(addr) /\ oc THEN [err |-> PanicMsg, m |-> m]
    ELSE IF ~RangeOk(addr) THEN [err |-> "set word: bad addr", m |-> m]
    ELSE [err |-> "",
          m |-> [m EXCEPT !.mem =
                   [i \in DOMAIN m.mem |->
                      IF i > Num(addr) /\ i <= Num(addr) + WordSize
                      THEN to_le_bytes(word)[i - Num(addr) - 1]
                      ELSE m.mem[i]]]]

\* a word write that leaves the most significant byte
set_mem_word_SevenBytes(m, addr, word, oc) ==
    IF RangeOverflows(addr) /\ oc THEN [err |-> PanicMsg, m |-> m]
    ELSE IF ~RangeOk(addr) THEN [err |-> "set word: bad addr", m |-> m]
    ELSE [err |-> "",
          m |-> [m EXCEPT !.mem =
                   [i \in DOMAIN m.mem |->
                      IF i >= Num(addr) /\ i < Num(addr) + WordSize - 1
                      THEN to_le_bytes(word)[i - Num(addr)]
                      ELSE m.mem[i]]]]

set_mem_word(m, addr, word, oc) ==
    IF RangeOverflows(addr) /\ oc THEN [err |-> PanicMsg, m |-> m]
    ELSE IF ~RangeOk(addr) THEN [err |-> "set word: bad addr", m |-> m]
    ELSE [err |-> "",
          m |-> [m EXCEPT !.mem =
                   [i \in DOMAIN m.mem |->
                      IF i >= Num(addr) /\ i < Num(addr) + WordSize
                      THEN to_le_bytes(word)[i - Num(addr)]
                      ELSE m.mem[i]]]]

\* ------------------------------------------------------------- fetch
\* a decoder that takes the function nibble 7 for the last predicate
CondFun_AcceptsSeven(fun) ==
    CASE fun = 0 -> "Ucnd" [] fun = 1 -> "Lte" [] fun = 2 -> "Lt" [] fun = 3 -> "Eq"
      [] fun = 4 -> "Neq" [] fun = 5 -> "Gte" [] fun \in {6, 7} -> "Gt" [] OTHER -> "bad"

CondFun(fun) ==
    CASE fun = 0 -> "Ucnd" [] fun = 1 -> "Lte" [] fun = 2 -> "Lt" [] fun = 3 -> "Eq"
      [] fun = 4 -> "Neq" [] fun = 5 -> "Gte" [] fun = 6 -> "Gt" [] OTHER -> "bad"

OpFun(fun) ==
    CASE fun = 0 -> "Add" [] fun = 1 -> "Sub" [] fun = 2 -> "And" [] fun = 3 -> "Xor"
      [] OTHER -> "bad"

\* a fetch that takes a register-pair byte past the end of memory for 0
FetchRegs_PastEndIsZero(m, st) ==
    LET a == Num(m.pc) + 1
    IN  Done(m, [st EXCEPT !.r_a = IF a < MemSize THEN m.mem[a] \div 16 ELSE 0,
                           !.r_b = IF a < MemSize THEN m.mem[a] % 16 ELSE 0])

\* (state.r_a, state.r_b) = match self.mem.get(self.pc + 1) ...
FetchRegs(m, st) ==
    LET a == Num(m.pc) + 1
    IN  IF a < MemSize
        THEN Done(m, [st EXCEPT !.r_a = m.mem[a] \div 16, !.r_b = m.mem[a] % 16])
        ELSE Bail(m, st, "bad addr")

\* state.val_c = self.get_mem_word(self.pc + k)?
FetchValC(m, st, k, oc) ==
    LET r == get_mem_word(m, W(Num(m.pc) + k), oc)
    IN  IF r.err = "" THEN Done(m, [st EXCEPT !.val_c = r.val]) ELSE Bail(m, st, r.err)

\* a next-pc that counts a register-pair byte for the 9-byte instructions too
PcPlus_CountsRegByte(m, k) == W(Num(m.pc) + (IF k = 9 THEN 10 ELSE k))

\* the value of self.pc + k as a usize (pc is inside memory here)
PcPlus(m, k) == W(Num(m.pc) + k)

fetch(m, st, oc) ==
    IF ~MemHas(m, m.pc) THEN Bail(m, st, "bad addr")
    ELSE
    LET byte == m.mem[Num(m.pc)]
        code == byte \div 16
        fun == byte % 16
    IN  CASE code = 0 -> Done(m, [st EXCEPT !.op = "Halt", !.val_p = PcPlus(m, 1)])
          [] code = 1 -> Done(m, [st EXCEPT !.op = "Nop", !.val_p = PcPlus(m, 1)])
          [] code = 2 ->
                LET s1 == [st EXCEPT !.op = "Cmov", !.val_p = PcPlus(m, 2)]
                IN  IF CondFun(fun) = "bad" THEN Bail(m, s1, "bad ifun for cmov")
                    ELSE FetchRegs(m, [s1 EXCEPT !.fun = CondFun(fun)])
          [] code = 3 ->
                LET r1 == FetchRegs(m, [st EXCEPT !.op = "Irmov", !.val_p = PcPlus(m, 10)])
                IN  IF r1.err # "" THEN r1 ELSE FetchValC(m, r1.st, 2, oc)
          [] code = 4 \/ code = 5 ->
                LET r1 == FetchRegs(m, [st EXCEPT !.op = IF code = 4 THEN "Rmmov" ELSE "Mrmov",
                                                  !.val_p = PcPlus(m, 10)])
                IN  IF r1.err # "" THEN r1 ELSE FetchValC(m, r1.st, 2, oc)
          [] code = 6 ->
                LET s1 == [st EXCEPT !.op = "Opx"]
                IN  IF OpFun(fun) = "bad" THEN Bail(m, s1, "bad ifun for opx")
                    ELSE LET r1 == FetchRegs(m, [s1 EXCEPT !.fun = OpFun(fun)])
                         IN  IF r1.err # "" THEN r1
                             ELSE Done(m, [r1.st EXCEPT !.val_p = PcPlus(m, 2)])
          [] code = 7 ->
                LET s1 == [st EXCEPT !.op = "Jxx"]
                IN  IF CondFun(fun) = "bad" THEN Bail(m, s1, "bad ifun for jxx")
                    ELSE LET r1 == FetchValC(m, [s1 EXCEPT !.fun = CondFun(fun)], 1, oc)
                         IN  IF r1.err # "" THEN r1
                             ELSE Done(m, [r1.st EXCEPT !.val_p = PcPlus(m, 9)])
          [] code = 8 ->
                LET r1 == FetchValC(m, [st EXCEPT !.op = "Call"], 1, oc)
                IN  IF r1.err # "" THEN r1
                    ELSE Done(m, [r1.st EXCEPT !.val_p = PcPlus(m, 9)])
          [] code = 9 -> Done(m, [st EXCEPT !.op = "Ret", !.val_p = PcPlus(m, 1)])
          [] code = 10 \/ code = 11 ->
                LET r1 == FetchRegs(m, [st EXCEPT !.op = IF code = 10 THEN "Push" ELSE "Pop"])
                IN  IF r1.err # "" THEN r1
                    ELSE Done(m, [r1.st EXCEPT !.val_p = PcPlus(m, 2)])
          [] OTHER -> Bail(m, st, "bad icode")


\* ------------------------------------------------------------ decode
decode(m, st, oc) ==
    CASE st.op \in {"Rmmov", "Opx", "Cmov"} ->
            IF ~RegHas(st.r_a) THEN Bail(m, st, "bad reg in rmmov/opx")
            ELSE LET s1 == [st EXCEPT !.val_a = m.regs[st.r_a]]
                 IN  IF ~RegHas(st.r_b) THEN Bail(m, s1, "bad reg in rmmov/opx")
                     ELSE Done(m, [s1 EXCEPT !.val_b = m.regs[st.r_b]])
      [] st.op = "Mrmov" ->
            IF ~RegHas(st.r_b) THEN Bail(m, st, "bad reg in cmov/mrmov")
            ELSE Done(m, [st EXCEPT !.val_b = m.regs[st.r_b]])
      [] st.op = "Call" ->
            IF ~RegHas(RSP) THEN Bail(m, st, "bad reg in call")
            ELSE Done(m, [st EXCEPT !.val_b = m.regs[RSP]])
      [] st.op \in {"Ret", "Pop"} ->
            IF ~RegHas(RSP) THEN Bail(m, st, "bad reg in ret/pop")
            ELSE Done(m, [st EXCEPT !.val_b = m.regs[RSP], !.val_a = m.regs[RSP]])
      [] st.op = "Push" ->
            IF ~RegHas(st.r_a) THEN Bail(m, st, "bad reg in push")
            ELSE LET s1 == [st EXCEPT !.val_a = m.regs[st.r_a]]
                 IN  IF ~RegHas(RSP) THEN Bail(m, s1, "bad reg in push")
                     ELSE Done(m, [s1 EXCEPT !.val_b = m.regs[RSP]])
      [] OTHER -> Done(m, st)

\* ----------------------------------------------------------- execute
cond(m, fun) ==
    LET sf == m.flags[1]
        zf == m.flags[2]
        of == m.flags[3]
    IN  CASE fun = "Ucnd" -> TRUE
          [] fun = "Lte" -> (sf # of) \/ zf
          [] fun = "Lt" -> sf # of
          [] fun = "Eq" -> zf
          [] fun = "Neq" -> ~zf
          [] fun = "Gte" -> ~(sf # of) /\ zf
          [] fun = "Gt" -> ~(sf # of)
          [] OTHER -> FALSE

\* the flags an arithmetic/logic-op leaves: Flags(res < 0, res == 0, of)
OpFlags(res, of) == <<IsNeg(res), res = ZeroW, of>>

\* an address addition that goes through the flag-setting adder
CheckedAdd_SetsFlags(m, st, a, b, oc) ==
    LET r == overflowing_add(a, b)
    IN  IF r[2] /\ oc THEN Bail(m, st, PanicMsg)
        ELSE Done([m EXCEPT !.flags = OpFlags(r[1], r[2])], [st EXCEPT !.val_e = r[1]])

\* a + b on isize outside overflowing_add: panics when the build checks overflow
CheckedAdd(m, st, a, b, oc) ==
    LET r == overflowing_add(a, b)
    IN  IF r[2] /\ oc THEN Bail(m, st, PanicMsg) ELSE Done(m, [st EXCEPT !.val_e = r[1]])

CheckedSub(m, st, a, b, oc) ==
    LET r == overflowing_sub(a, b)
    IN  IF r[2] /\ oc THEN Bail(m, st, PanicMsg) ELSE Done(m, [st EXCEPT !.val_e = r[1]])

\* an addition that saturates instead of wrapping
OpxAdd_Saturating(st) ==
    LET r == overflowing_add(st.val_b, st.val_a)
    IN  IF r[2] THEN <<IF IsNeg(st.val_b) THEN MinW ELSE MaxW, TRUE>> ELSE r

\* a subtraction with its operands the other way round
OpxSub_Swapped(st) == overflowing_sub(st.val_a, st.val_b)

\* the (res, of) of the arm of `match state.fun` of an arithmetic/logic-op
OpxAdd(st) == overflowing_add(st.val_b, st.val_a)
OpxSub(st) == overflowing_sub(st.val_b, st.val_a)
OpxAnd(st) == <<AndW(st.val_b, st.val_a), FALSE>>
OpxXor(st) == <<XorW(st.val_b, st.val_a), FALSE>>

\* self.flags = Flags(res < 0, res == 0, of); res
OpxDone(m, st, r) ==
    Done([m EXCEPT !.flags = OpFlags(r[1], r[2])], [st EXCEPT !.val_e = r[1]])

execute(m, st, oc) ==
    CASE st.op = "Irmov" -> Done(m, [st EXCEPT !.val_e = st.val_c])
      [] st.op = "Cmov" ->
            LET c == cond(m, st.fun)
            IN  Done(m, [st EXCEPT !.cnd = c, !.val_e = IF c THEN st.val_a ELSE st.val_b])
      [] st.op \in {"Rmmov", "Mrmov"} -> CheckedAdd(m, st, st.val_b, st.val_c, oc)
      [] st.op = "Opx" ->
            CASE st.fun = "Add" -> OpxDone(m, st, OpxAdd(st))
              [] st.fun = "Sub" -> OpxDone(m, st, OpxSub(st))
              [] st.fun = "And" -> OpxDone(m, st, OpxAnd(st))
              [] st.fun = "Xor" -> OpxDone(m, st, OpxXor(st))
              [] OTHER -> Bail(m, st, "bad fun for Opx")
      [] st.op = "Jxx" ->
            LET c == cond(m, st.fun)
            IN  Done(m, [st EXCEPT !.cnd = c, !.val_e = IF c THEN st.val_c ELSE st.val_p])
      [] st.op \in {"Call", "Push"} -> CheckedSub(m, st, st.val_b, W(8), oc)
      [] st.op \in {"Ret", "Pop"} -> CheckedAdd(m, st, st.val_b, W(8), oc)
      [] OTHER -> Done(m, [st EXCEPT !.val_e = ZeroW])

\* ------------------------------------------------------------ memory
memory(m, st, oc) ==
    CASE st.op = "Rmmov" ->
            LET r == set_mem_word(m, st.val_e, st.val_a, oc)
            IN  IF r.err # "" THEN Bail(m, st, r.err) ELSE Done(r.m, st)
      [] st.op = "Mrmov" ->
            LET r == get_mem_word(m, st.val_e, oc)
            IN  IF r.err # "" THEN Bail(m, st, r.err)
                ELSE Done(m, [st EXCEPT !.val_m = r.val])
      [] st.op = "Call" ->
            LET r == set_mem_word(m, st.val_e, st.val_p, oc)
            IN  IF r.err # "" THEN Bail(m, st, r.err) ELSE Done(r.m, st)
      [] st.op = "Push" ->
            LET r == set_mem_word(m, st.val_e, st.val_a, oc)
            IN  IF r.err # "" THEN Bail(m, st, r.err) ELSE Done(r.m, st)
      [] st.op \in {"Ret", "Pop"} ->
            LET r == get_mem_word(m, st.val_a, oc)
            IN  IF r.err # "" THEN Bail(m, st, r.err)
                ELSE Done(m, [st EXCEPT !.val_m = r.val])
      [] OTHER -> Done(m, st)

\* --------------------------------------------------------- writeback
\* a register write that lands in the next register
SetReg_NextReg(m, st, i, val, msg) ==
    IF RegHas(i) THEN Done([m EXCEPT !.regs[(i + 1) % NumRegs] = val], st)
    ELSE Bail(m, st, msg)

\* match self.regs.get_mut(i) { Some(reg) => *reg = val, None => bail!(msg) }
SetReg(m, st, i, val, msg) ==
    IF RegHas(i) THEN Done([m EXCEPT !.regs[i] = val], st) ELSE Bail(m, st, msg)

\* a pop that writes the stack pointer before it checks r_a
PopWriteback_RspFirst(m, st) ==
    LET r1 == SetReg(m, st, RSP, st.val_e, "bad reg for mrmov")
    IN  IF r1.err # "" THEN r1
        ELSE SetReg(r1.m, st, st.r_a, st.val_a, "bad reg for pop")

\* the OpCode::Pop arm: state.val_a into r_a, then state.val_e into RSP
PopWriteback(m, st) ==
    LET r1 == SetReg(m, st, st.r_a, st.val_a, "bad reg for pop")
    IN  IF r1.err # "" THEN r1
        ELSE SetReg(r1.m, st, RSP, st.val_e, "bad reg for mrmov")

writeback(m, st, oc) ==
    CASE st.op \in {"Irmov", "Cmov", "Opx"} ->
            SetReg(m, st, st.r_b, st.val_e, "bad reg for irmov")
      [] st.op = "Mrmov" -> SetReg(m, st, st.r_a, st.val_m, "bad reg for mrmov")
      [] st.op \in {"Call", "Ret", "Push"} ->
            SetReg(m, st, RSP, st.val_e, "bad reg for call/ret/push")
      [] st.op = "Pop" -> PopWriteback(m, st)
      [] OTHER -> Done(m, st)

\* --------------------------------------------------------- pc_update
\* a return that falls through to the next sequential instruction
NextPc_RetFallsThrough(st) ==
    CASE st.op = "Jxx" -> st.val_e
      [] st.op = "Call" -> st.val_c
      [] OTHER -> st.val_p

\* self.pc = match state.op { ... }
NextPc(st) ==
    CASE st.op = "Jxx" -> st.val_e
      [] st.op = "Ret" -> st.val_m
      [] st.op = "Call" -> st.val_c
      [] OTHER -> st.val_p

pc_update(m, st, oc) ==
    LET m1 == IF st.op = "Halt" THEN [m EXCEPT !.status = "Halt"] ELSE m
    IN  Done([m1 EXCEPT !.pc = NextPc(st)], st)

\* --------------------------------------------------------------- run
\* the `?` after a stage: a failed stage ends the pass with its result
ThenDecode(r, oc) == IF r.err # "" THEN r ELSE decode(r.m, r.st, oc)
ThenExecute(r, oc) == IF r.err # "" THEN r ELSE execute(r.m, r.st, oc)
ThenMemory(r, oc) == IF r.err # "" THEN r ELSE memory(r.m, r.st, oc)
ThenWriteback(r, oc) == IF r.err # "" THEN r ELSE writeback(r.m, r.st, oc)
ThenPcUpdate(r, oc) == IF r.err # "" THEN r ELSE pc_update(r.m, r.st, oc)
\* a counter that also counts the pass that failed
ThenCount_CountsFailures(r) ==
    IF r.err # "" THEN [r EXCEPT !.m.cycle = r.m.cycle + 1]
    ELSE Done([r.m EXCEPT !.cycle = r.m.cycle + 1], r.st)

\* self.cycle += 1
ThenCount(r) ==
    IF r.err # "" THEN r ELSE Done([r.m EXCEPT !.cycle = r.m.cycle + 1], r.st)

\* one pass of the while loop of run
RunCycle(m, oc) ==
    ThenCount(ThenPcUpdate(ThenWriteback(ThenMemory(ThenExecute(ThenDecode(
        fetch(m, NewCycleState, oc), oc), oc), oc), oc), oc))

\* ---------------------------------------------------- memory images
\* The memory after Machine::new and Machine::load of an object file: the file's
\* bytes at their addresses, zero elsewhere.
ZeroMem == [i \in 0..(MemSize - 1) |-> 0]

\* load writes bytes from address a on and drops what lies past the memory
Place(image, a, bytes) ==
    [i \in 0..(MemSize - 1) |->
        IF i >= a /\ i < a + Len(bytes) THEN bytes[i - a + 1] ELSE image[i]]

\* instruction encodings: opcode byte, register-pair byte, little-endian immediate
LE(w) == [j \in 1..WordSize |-> to_le_bytes(w)[j - 1]]
I0(b) == <<b>>
IR(b, ra, rb) == <<b, 16 * ra + rb>>
IRV(b, ra, rb, w) == <<b, 16 * ra + rb>> \o LE(w)
IV(b, w) == <<b>> \o LE(w)

irmovq(w, rb) == IRV(48, 15, rb, w)
rmmovq(ra, d, rb) == IRV(64, ra, rb, d)
mrmovq(d, rb, ra) == IRV(80, ra, rb, d)
opq(f, ra, rb) == IR(96 + f, ra, rb)
cmovxx(f, ra, rb) == IR(32 + f, ra, rb)
jxx(f, w) == IV(112 + f, w)
call(w) == IV(128, w)
ret == I0(144)
pushq(ra) == IR(160, ra, 15)
popq(ra) == IR(176, ra, 15)
nop == I0(16)
halt == I0(0)

\* where the programs keep a second piece of code, and the top of their stack
TailAddr == MemSize - 16
StackTop == MemSize

\* values loaded into registers
Vals == {ZeroW, W(1), MinusOneW, MaxW, MinW}
\* stack pointers: the top of memory, a stack that runs over the code at TailAddr,
\* one word from the bottom, the bottom, past the end, and a negative one
StackPtrs == {W(StackTop), W(TailAddr + 8), W(8), ZeroW, W(StackTop + 8), NegW(8), MaxW}
\* register operands: %rax, %rbx, %rsp, %r14 and the nibble that names none
Regs == {0, 3, RSP, 14, 15}

\* stack programs: set a register and the stack pointer, then two of push, pop,
\* call, ret; a ret or a halt at TailAddr
StackOps1 == {pushq(r) : r \in Regs} \cup {popq(r) : r \in {0, RSP}}
               \cup {call(W(TailAddr)), call(W(MemSize)), ret}
StackOps2 == {popq(r) : r \in Regs} \cup {pushq(0), ret, nop}
StackImages ==
    { Place(Place(ZeroMem, 0, irmovq(v, r) \o irmovq(sp, RSP) \o i1 \o i2), TailAddr, t) :
        <<v, r, sp, i1, i2, t>> \in
            {W(7), MinusOneW} \X {0, 14} \X StackPtrs \X StackOps1 \X StackOps2
              \X {ret, halt} }

\* arithmetic programs: load two registers, one arithmetic/logic-op, then a
\* conditional move or a conditional jump on the flags it left
CondOps == {cmovxx(f, 0, 3) : f \in 0..6} \cup {jxx(f, W(TailAddr)) : f \in 0..6} \cup {halt}
AluImages ==
    { Place(ZeroMem, 0, irmovq(a, 0) \o irmovq(b, 3) \o opq(f, 0, 3) \o i2) :
        <<a, b, f, i2>> \in Vals \X Vals \X (0..3) \X CondOps }
    \cup
    { Place(ZeroMem, 0, irmovq(a, 0) \o irmovq(b, 3) \o opq(f, rr[1], rr[2])) :
        <<a, b, f, rr>> \in
            {W(1), MinW} \X {MaxW, MinusOneW} \X (0..3)
              \X {<<3, 0>>, <<0, 0>>, <<14, RSP>>, <<15, 0>>, <<0, 15>>} }

\* store/load programs
Bases == {W(TailAddr), W(TailAddr + 1), W(MemSize - 7), W(MemSize), MaxW, NegW(8)}
Disps == {ZeroW, W(8), NegW(8)}
MemImages ==
    { Place(ZeroMem, 0, irmovq(v, 0) \o irmovq(b, 3) \o i1 \o i2) :
        <<v, b, i1, i2>> \in
            {W(7), MinusOneW, MinW} \X Bases
              \X ({rmmovq(r, d, 3) : <<r, d>> \in {0, 15} \X Disps}
                    \cup {mrmovq(ZeroW, 3, 14)})
              \X ({mrmovq(d, 3, r) : <<d, r>> \in Disps \X {14, 15}} \cup {halt}) }

\* decoding: every first byte with two register-pair bytes, and an instruction
\* that a jump reaches at the very end of the memory
DecodeImages ==
    { Place(ZeroMem, 0, <<b0, b1>> \o LE(W(TailAddr))) :
        <<b0, b1>> \in (0..255) \X {3, 243} }
    \cup
    { Place(Place(ZeroMem, 0, jxx(0, t)), Num(t), <<b>>) :
        <<t, b>> \in {W(MemSize - 1), W(MemSize - 2), W(MemSize - 9), W(MemSize - 10),
                      W(MemSize), MaxW}
                    \X {0, 16, 32, 48, 64, 80, 96, 112, 128, 144, 160, 176, 192,
                        39, 100, 119} }

\* a store and a load whose base + displacement leaves the signed word range
WrapImages ==
    { Place(ZeroMem, 0, irmovq(W(7), 0) \o irmovq(b, 3) \o i1) :
        <<b, i1>> \in {MinW, MaxW}
                      \X {rmmovq(0, MinW, 3), rmmovq(0, MaxW, 3), mrmovq(MinW, 3, 0)} }

\* an immediate-load of v into register r, then halt
LoadHalt(v, r) == Place(ZeroMem, 0, irmovq(v, r) \o halt)
LoadHaltImages == { LoadHalt(v, r) : <<v, r>> \in (Vals \cup {W(10)}) \X (0..(NumRegs - 1)) }

\* a store of %rax and a load from the same address into %rax, the base register
\* or %r14
RoundTripImages ==
    { Place(ZeroMem, 0, irmovq(v, 0) \o irmovq(W(TailAddr), 3) \o rmmovq(0, d, 3)
                         \o mrmovq(d, 3, rc)) :
        <<v, d, rc>> \in Vals \X {ZeroW, W(8)} \X {0, 3, 14} }

\* programs that come back to where they were: a jump to itself, and a nop and a
\* jump back to it
LoopImages ==
    {Place(ZeroMem, 0, jxx(0, ZeroW)), Place(ZeroMem, 0, nop \o jxx(0, ZeroW))}

Images ==
    StackImages \cup AluImages \cup MemImages \cup DecodeImages \cup WrapImages
      \cup LoadHaltImages \cup LoopImages \cup RoundTripImages

\* ------------------------------------------------------------- load
\* The text of an object file is bytes (ASCII codes); a line is a sequence of them.
Ch0 == 48
Ch9 == 57
ChUpperA == 65
ChLowerA == 97
ChX == 120
ChColon == 58
ChPipe == 124
ChSpace == 32
ChTab == 9
ChPlus == 43

\* before load has read a line
NoLine == [form |-> "none", text |-> <<>>, addr |-> 0, bytes |-> <<>>]

\* line.starts_with("0x")
starts_with_0x(t) == Len(t) >= 2 /\ t[1] = Ch0 /\ t[2] = ChX

\* line.find(c): the place of the first c, counted from 1; 0 is None
find(t, c) ==
    IF \E i \in 1..Len(t) : t[i] = c
    THEN CHOOSE i \in 1..Len(t) : t[i] = c /\ \A j \in 1..(i - 1) : t[j] # c
    ELSE 0

\* char::to_digit(16), -1 is None
to_digit(c) ==
    IF c \in Ch0..Ch9 THEN c - Ch0
    ELSE IF c \in ChLowerA..(ChLowerA + 5) THEN c - ChLowerA + 10
    ELSE IF c \in ChUpperA..(ChUpperA + 5) THEN c - ChUpperA + 10
    ELSE -1

RECURSIVE RadixValue(_)
RadixValue(s) ==
    IF s = <<>> THEN 0 ELSE 16 * RadixValue(SubSeq(s, 1, Len(s) - 1)) + to_digit(s[Len(s)])

\* usize::from_str_radix(s, 16), -1 is Err: one optional plus sign, then one or
\* more hexadecimal digits (no text here is long enough to overflow a usize)
from_str_radix(s) ==
    LET d == IF s # <<>> /\ s[1] = ChPlus THEN Tail(s) ELSE s
    IN IF d = <<>> \/ \E i \in 1..Len(d) : to_digit(d[i]) = -1 THEN -1 ELSE RadixValue(d)

IsWhite(c) == c \in {ChSpace, ChTab}

\* str::trim
RECURSIVE trim(_)
trim(t) ==
    IF t = <<>> THEN t
    ELSE IF IsWhite(t[1]) THEN trim(Tail(t))
    ELSE IF IsWhite(t[Len(t)]) THEN trim(SubSeq(t, 1, Len(t) - 1))
    ELSE t

\* a conversion that is right for the digits 0-9 and one off for the letters
HexNibble_LettersFromTen(c) == IF c > Ch9 THEN (c % 16) + 10 ELSE c % 16

\* if byte > b'9' { (byte & 0x0f) + 9 } else { byte & 0x0f }
HexNibble(c) == IF c > Ch9 THEN (c % 16) + 9 ELSE c % 16

\* a | b on bytes
RECURSIVE ByteOr(_, _)
ByteOr(a, b) ==
    IF a = 0 THEN b
    ELSE IF b = 0 THEN a
    ELSE 2 * ByteOr(a \div 2, b \div 2) + (IF a % 2 = 1 \/ b % 2 = 1 THEN 1 ELSE 0)

\* byte <<= 4; byte |= the second character's nibble
HexByte(hi, lo) == ByteOr((HexNibble(hi) * 16) % ByteBase, HexNibble(lo))

IndexPanicMsg == "panic: index out of bounds"
ParseErrMsg == "invalid digit found in string"

\* the loop while i < enc.len(), i counted from 1: enc[i + 1] panics past the end of
\* enc; an address outside the memory breaks out of the loop
RECURSIVE WriteEnc(_, _, _, _)
WriteEnc(m, enc, i, addr) ==
    IF i > Len(enc) THEN [mem |-> m, err |-> ""]
    ELSE IF i + 1 > Len(enc) THEN [mem |-> m, err |-> IndexPanicMsg]
    ELSE IF addr \in DOMAIN m
         THEN WriteEnc([m EXCEPT ![addr] = HexByte(enc[i], enc[i + 1])], enc, i + 2, addr + 1)
         ELSE [mem |-> m, err |-> ""]

\* the body of for line in file.lines(), on the memory m. A bar before the colon
\* is part of addr_str, which then is no number: colon + 1..pipe is always a range
\* of the line when the code reaches it
LoadLineOf(m, t) ==
    IF ~starts_with_0x(t) THEN [mem |-> m, err |-> ""]
    ELSE LET colon == find(t, ChColon)
             addr == from_str_radix(SubSeq(t, 3, colon - 1))
             pipe == find(t, ChPipe)
         IN IF colon = 0 THEN [mem |-> m, err |-> ""]
            ELSE IF addr = -1 THEN [mem |-> m, err |-> ParseErrMsg]
            ELSE IF pipe = 0 THEN [mem |-> m, err |-> ""]
            ELSE WriteEnc(m, trim(SubSeq(t, colon + 1, pipe - 1)), 1, addr)

\* ---- the lines of the object files
\* the hexadecimal digits
HexDigits == (Ch0..Ch9) \cup (ChLowerA..(ChLowerA + 5)) \cup (ChUpperA..(ChUpperA + 5))

\* the digit of the value v, in either case
DigitChar(v, upper) ==
    IF v < 10 THEN Ch0 + v ELSE IF upper THEN ChUpperA + v - 10 ELSE ChLowerA + v - 10

\* an address as the assembler writes it: three digits
AddrText(a, upper) ==
    <<DigitChar(a \div 256, upper), DigitChar((a \div 16) % 16, upper),
      DigitChar(a % 16, upper)>>

RECURSIVE Flatten(_)
Flatten(ps) == IF ps = <<>> THEN <<>> ELSE ps[1] \o Flatten(Tail(ps))

\* the text after the bar: the source line
Listing == <<ChSpace, ChColon, ChPipe, ChX>>

\* the line 0xADDR: HEXBYTES|... of the address a and the digit pairs ps
ObjLine(a, upper, ps, pad) ==
    [form |-> "object",
     text |-> <<Ch0, ChX>> \o AddrText(a, upper) \o <<ChColon, ChSpace>> \o Flatten(ps)
                \o pad \o <<ChPipe>> \o Listing,
     addr |-> a,
     bytes |-> [k \in 1..Len(ps) |-> 16 * to_digit(ps[k][1]) + to_digit(ps[k][2])]]

\* digit pairs of both cases: the digit 0 and the letter f, the letter A and the
\* digit 9
MixedPairs == {<<Ch0, ChLowerA + 5>>, <<ChUpperA, Ch9>>}

\* every digit in both places
DigitPairs == {<<d, d>> : d \in HexDigits}

\* lines of one byte at the start of the memory, lines of two bytes that end with
\* the memory, that run past its end and that start past its end, a line at the
\* last byte with its address in capitals, a line of no bytes
ObjLines ==
    {ObjLine(0, FALSE, <<p>>, <<>>) : p \in DigitPairs}
      \cup {ObjLine(a, FALSE, <<p, q>>, <<>>) :
               a \in {MemSize - 2, MemSize - 1, MemSize}, p, q \in MixedPairs}
      \cup {ObjLine(MemSize - 1, TRUE, <<p>>, <<ChTab, ChSpace>>) : p \in MixedPairs}
      \cup {ObjLine(0, FALSE, <<>>, <<>>)}

Other(f, t) == [form |-> f, text |-> t, addr |-> 0, bytes |-> <<>>]

\* lines that do not begin with 0x: an empty line, an indented line, a comment,
\* a lone 0
SkippedLines ==
    {Other("skipped", <<>>),
     Other("skipped", <<ChSpace, ChSpace>> \o ObjLine(0, FALSE, <<<<Ch0, Ch9>>>>, <<>>).text),
     Other("skipped", <<ChPipe, ChSpace, ChX>>),
     Other("skipped", <<Ch0>>)}

\* lines that begin with 0x and are not of the form: no colon, no bar, no address,
\* an address that is no number, an odd number of digits, a signed address, a bar
\* before the colon
MalformedLines ==
    {Other("malformed", <<Ch0, ChX, Ch0, Ch0>>),
     Other("malformed", <<Ch0, ChX, Ch0, ChColon, ChSpace, Ch9, Ch9>>),
     Other("malformed", <<Ch0, ChX, ChColon, Ch9, Ch9, ChPipe>>),
     Other("malformed", <<Ch0, ChX, ChX, ChColon, Ch9, Ch9, ChPipe>>),
     Other("malformed", <<Ch0, ChX, Ch0, ChColon, Ch9, Ch9, Ch9, ChPipe>>),
     Other("malformed", <<Ch0, ChX, ChPlus, Ch0, ChColon, ChSpace, Ch9, Ch0, ChPipe>>),
     Other("malformed", <<Ch0, ChX, Ch0, ChPipe, ChColon, Ch9, Ch9, ChPipe>>)}

Lines == ObjLines \cup SkippedLines \cup MalformedLines

\* --------------------------------------------------------------- new
Init ==
    /\ mem \in Images
    /\ regs = [i \in 0..(NumRegs - 1) |-> ZeroW]
    /\ flags = <<FALSE, FALSE, FALSE>>
    /\ status = "Aok"
    /\ cycle = 0
    /\ pc = ZeroW
    /\ step_mode = "NoStep"
    /\ cycle_state = NewCycleState
    /\ prev_cycle = NewCycleState
    /\ result = "Idle"
    /\ error = ""
    /\ runs = 0
    /\ overflow_checks \in BOOLEAN
    /\ stage = "Head"
    /\ head = Machine
    /\ line = NoLine

\* ------------------------------------------------------------ actions
SetMachine(m) ==
    /\ mem' = m.mem
    /\ regs' = m.regs
    /\ flags' = m.flags
    /\ status' = m.status
    /\ cycle' = m.cycle
    /\ pc' = m.pc

\* the caller invokes machine.run()
RunCall ==
    /\ result \in {"Idle", "Ok", "Err"}
    /\ runs < MaxRuns
    /\ result' = "Running"
    /\ runs' = runs + 1
    /\ cycle_state' = NewCycleState
    /\ prev_cycle' = NewCycleState
    /\ error' = ""
    /\ UNCHANGED <<mem, regs, flags, status, cycle, pc, step_mode, overflow_checks, line,
                   stage, head>>

\* a loop that does not look at the status
LoopCond_Always(m) == TRUE

\* a loop condition the wrong way round
LoopCond_Inverted(m) == m.status # "Aok"

\* while self.status == Status::Aok
LoopCond(m) == m.status = "Aok"

InLoop == result = "Running" /\ LoopCond(Machine) /\ cycle < MaxCycles

\* what a pass of the loop leaves, whatever its outcome
Ran(r) ==
    /\ SetMachine(r.m)
    /\ cycle_state' = r.st
    /\ prev_cycle' = cycle_state
    /\ error' = r.err
    /\ UNCHANGED <<step_mode, runs, overflow_checks, line, stage, head>>

\* a pass of the loop in which every stage returns Ok
Cycle ==
    /\ InLoop
    /\ \E r \in {RunCycle(Machine, overflow_checks)} : r.err = "" /\ Ran(r)
    /\ UNCHANGED result

\* a pass of the loop in which a stage returns Err: `?` returns it from run
CycleErr ==
    /\ InLoop
    /\ \E r \in {RunCycle(Machine, overflow_checks)} :
           r.err \notin {"", PanicMsg} /\ Ran(r)
    /\ result' = "Err"

\* a pass of the loop in which an addition or subtraction panics
CyclePanic ==
    /\ InLoop
    /\ \E r \in {RunCycle(Machine, overflow_checks)} : r.err = PanicMsg /\ Ran(r)
    /\ result' = "Panic"

\* the loop condition is false: run returns Ok(())
RunReturn ==
    /\ result = "Running"
    /\ ~LoopCond(Machine)
    /\ result' = "Ok"
    /\ UNCHANGED <<mem, regs, flags, status, cycle, pc, step_mode, cycle_state,
                   prev_cycle, error, runs, overflow_checks, line, stage, head>>

Next == RunCall \/ Cycle \/ CycleErr \/ CyclePanic \/ RunReturn

Spec == Init /\ [][Next]_vars

\* ------------------------------------------------ run, stage by stage
\* The same loop with every stage a step of its own, under each step mode.
StepModes == {"NoStep", "Stage", "Cycle", "Debug"}

\* format_mem reads the memory in chunks of wordsize bytes and panics at
\* self.mem.get(i..i + wordsize) == None: the last chunk of a memory whose size
\* is not a multiple of wordsize
format_mem_panics == MemSize % WordSize # 0
FormatPanicMsg == "panic: badaddr"

\* programs of the stepped runs: stack traffic, arithmetic with a register
\* nibble of 15, and the stores and loads of WrapImages
StepImages ==
    { Place(Place(ZeroMem, 0, irmovq(W(7), 0) \o irmovq(sp, RSP) \o i1 \o i2), TailAddr, t) :
        <<sp, i1, i2, t>> \in
            {W(StackTop), ZeroW} \X {pushq(0), call(W(TailAddr))}
              \X {popq(0), popq(15), ret} \X {ret, halt} }
    \cup
    { Place(ZeroMem, 0, irmovq(MinW, 0) \o irmovq(MinusOneW, 3) \o opq(f, rr[1], rr[2])
                         \o jxx(2, W(TailAddr))) :
        <<f, rr>> \in (0..3) \X {<<3, 0>>, <<0, 3>>, <<15, 0>>} }
    \cup WrapImages

StepInit ==
    /\ mem \in StepImages
    /\ regs = [i \in 0..(NumRegs - 1) |-> ZeroW]
    /\ flags = <<FALSE, FALSE, FALSE>>
    /\ status = "Aok"
    /\ cycle = 0
    /\ pc = ZeroW
    /\ step_mode \in StepModes
    /\ cycle_state = NewCycleState
    /\ prev_cycle = NewCycleState
    /\ result = "Idle"
    /\ error = ""
    /\ runs = 0
    /\ overflow_checks \in BOOLEAN
    /\ stage = "Head"
    /\ head = Machine
    /\ line = NoLine

\* the caller invokes machine.run()
StepRunCall ==
    /\ result \in {"Idle", "Ok", "Err"}
    /\ runs < MaxRuns
    /\ result' = "Running"
    /\ runs' = runs + 1
    /\ cycle_state' = NewCycleState
    /\ prev_cycle' = NewCycleState
    /\ error' = ""
    /\ stage' = "Head"
    /\ head' = Machine
    /\ UNCHANGED <<mem, regs, flags, status, cycle, pc, step_mode, overflow_checks, line>>

\* the modes in which the head of the loop prints the machine and waits for a key
Pauses == step_mode \in {"Stage", "Cycle"}

AtHead == result = "Running" /\ stage = "Head" /\ LoopCond(Machine) /\ cycle < MaxCycles

\* the head of the loop: the print and the wait of the modes Stage and Cycle (the
\* key arrives), then the new CycleState
StepHead ==
    /\ AtHead
    /\ ~(Pauses /\ format_mem_panics)
    /\ stage' = "Fetch"
    /\ head' = Machine
    /\ prev_cycle' = cycle_state
    /\ cycle_state' = NewCycleState
    /\ UNCHANGED <<mem, regs, flags, status, cycle, pc, step_mode, result, error, runs,
                   overflow_checks, line>>

\* the head of the loop: println!("{}", self) panics in format_mem
StepHeadPanic ==
    /\ AtHead
    /\ Pauses /\ format_mem_panics
    /\ result' = "Panic"
    /\ error' = FormatPanicMsg
    /\ UNCHANGED <<mem, regs, flags, status, cycle, pc, step_mode, cycle_state, prev_cycle,
                   runs, overflow_checks, line, stage, head>>

\* the call of a stage on the machine and the CycleState as they are
StageResult(s) ==
    CASE s = "Fetch" -> fetch(Machine, cycle_state, overflow_checks)
      [] s = "Decode" -> decode(Machine, cycle_state, overflow_checks)
      [] s = "Execute" -> execute(Machine, cycle_state, overflow_checks)
      [] s = "Memory" -> memory(Machine, cycle_state, overflow_checks)
      [] s = "Writeback" -> writeback(Machine, cycle_state, overflow_checks)
      [] s = "PcUpdate" -> ThenCount(pc_update(Machine, cycle_state, overflow_checks))

NextStage(s) ==
    CASE s = "Fetch" -> "Decode" [] s = "Decode" -> "Execute" [] s = "Execute" -> "Memory"
      [] s = "Memory" -> "Writeback" [] s = "Writeback" -> "PcUpdate"
      [] s = "PcUpdate" -> "Head"

\* what ends run when a stage returns r
Outcome(r) ==
    IF r.err = "" THEN "Running" ELSE IF r.err = PanicMsg THEN "Panic" ELSE "Err"

\* a stage, its `?`, and do_step, which in the mode Stage prints the CycleState
\* and waits for a key and in the other modes does nothing
StepStage(s) ==
    /\ result = "Running"
    /\ stage = s
    /\ \E r \in {StageResult(s)} :
          /\ SetMachine(r.m)
          /\ cycle_state' = r.st
          /\ error' = r.err
          /\ result' = Outcome(r)
          /\ stage' = IF r.err = "" THEN NextStage(s) ELSE s
    /\ UNCHANGED <<step_mode, prev_cycle, runs, overflow_checks, line, head>>

StepFetch == StepStage("Fetch")
StepDecode == StepStage("Decode")
StepExecute == StepStage("Execute")
StepMemory == StepStage("Memory")
StepWriteback == StepStage("Writeback")
StepPcUpdate == StepStage("PcUpdate")

\* the loop condition is false: run returns Ok(())
StepReturn ==
    /\ result = "Running"
    /\ stage = "Head"
    /\ ~LoopCond(Machine)
    /\ result' = "Ok"
    /\ UNCHANGED <<mem, regs, flags, status, cycle, pc, step_mode, cycle_state,
                   prev_cycle, error, runs, overflow_checks, line, stage, head>>

StepNext ==
    \/ StepRunCall \/ StepHead \/ StepHeadPanic
    \/ StepFetch \/ StepDecode \/ StepExecute \/ StepMemory \/ StepWriteback
    \/ StepPcUpdate \/ StepReturn

StepSpec == StepInit /\ [][StepNext]_vars

\* ----------------------------------------------------------- new, load
\* Machine::new, then load on a file of any lines of Lines. Here result is where
\* the caller stands with load: Idle, Loading, Ok, Err, Panic.
LoadInit ==
    /\ mem = ZeroMem
    /\ regs = [i \in 0..(NumRegs - 1) |-> ZeroW]
    /\ flags = <<FALSE, FALSE, FALSE>>
    /\ status = "Aok"
    /\ cycle = 0
    /\ pc = ZeroW
    /\ step_mode = "NoStep"
    /\ cycle_state = NewCycleState
    /\ prev_cycle = NewCycleState
    /\ result = "Idle"
    /\ error = ""
    /\ runs = 0
    /\ overflow_checks \in BOOLEAN
    /\ stage = "Head"
    /\ head = Machine
    /\ line = NoLine

LoadFrame ==
    UNCHANGED <<regs, flags, status, cycle, pc, step_mode, cycle_state, prev_cycle, runs,
                overflow_checks, stage, head>>

\* the caller invokes machine.load(file)
LoadCall ==
    /\ result = "Idle"
    /\ result' = "Loading"
    /\ UNCHANGED <<mem, error, line>>
    /\ LoadFrame

\* what ends load when the body of the loop leaves the error e
LoadOutcome(e) ==
    IF e = "" THEN "Loading" ELSE IF e = IndexPanicMsg THEN "Panic" ELSE "Err"

\* the next line of the file, and the body of the loop on it
LoadStep(l) ==
    /\ result = "Loading"
    /\ line' = l
    /\ \E r \in {LoadLineOf(mem, l.text)} :
          /\ mem' = r.mem
          /\ error' = r.err
          /\ result' = LoadOutcome(r.err)
    /\ LoadFrame

\* a line that the loop gets through
LoadLine == \E l \in Lines : LoadStep(l) /\ result' = "Loading"

\* a line whose address from_str_radix refuses: `?` returns the error from load
LoadLineErr == \E l \in Lines : LoadStep(l) /\ result' = "Err"

\* a line with an odd number of digits: enc[i + 1] panics
LoadLinePanic == \E l \in Lines : LoadStep(l) /\ result' = "Panic"

\* the file has no more lines: load returns Ok(())
LoadReturn ==
    /\ result = "Loading"
    /\ result' = "Ok"
    /\ UNCHANGED <<mem, error, line>>
    /\ LoadFrame

LoadNext == LoadCall \/ LoadLine \/ LoadLineErr \/ LoadLinePanic \/ LoadReturn

LoadSpec == LoadInit /\ [][LoadNext]_vars

\* ============================================================ claims
\* the last cycle of this call of run completed
LastOk == error = "" /\ cycle_state # NewCycleState

\* the last two cycles of this call of run completed: a failed cycle ends the call
LastTwoOk == LastOk /\ prev_cycle # NewCycleState

\* a step of the model that is a completed cycle
CycleStep == result = "Running" /\ cycle' = cycle + 1

\* C1: push R immediately followed by pop R, R not the stack pointer, both cycles
\* completing, leaves R with the value it had before the push and the stack
\* pointer with its value before the push.
C1_PushPopRoundTrip ==
    (/\ LastTwoOk
     /\ prev_cycle.op = "Push"
     /\ cycle_state.op = "Pop"
     /\ cycle_state.r_a = prev_cycle.r_a
     /\ prev_cycle.r_a # RSP)
    => /\ regs[prev_cycle.r_a] = prev_cycle.val_a
       /\ regs[RSP] = prev_cycle.val_b

\* C2: a completed pop rA loads the word at the old stack pointer into valM,
\* writes valM into rA and the old stack pointer + 8 into the stack pointer.
C2_PopSemantics ==
    [][(CycleStep /\ cycle_state'.op = "Pop")
       => /\ cycle_state'.val_m = FromBytes(Machine, Num(regs[RSP]))
          /\ (cycle_state'.r_a # RSP => regs'[cycle_state'.r_a] = cycle_state'.val_m)
          /\ regs'[RSP] = wrapping_add(regs[RSP], W(8))]_vars

\* C3: a call at p with stack pointer sp immediately followed by a return, both
\* cycles completing, leaves pc = p + 9 and the stack pointer = sp.
C3_CallRetRoundTrip ==
    /\ [](( /\ LastTwoOk
            /\ prev_cycle.op = "Call"
            /\ cycle_state.op = "Ret")
          => /\ pc = prev_cycle.val_p
             /\ regs[RSP] = prev_cycle.val_b)
    /\ [][(CycleStep /\ cycle_state'.op = "Call")
          => /\ cycle_state'.val_p = wrapping_add(pc, W(9))
             /\ cycle_state'.val_b = regs[RSP]]_vars

\* a call to TailAddr and the return there have both completed, the return
\* address read back from the stack
C3_Witness ==
    /\ LastTwoOk
    /\ prev_cycle.op = "Call"
    /\ cycle_state.op = "Ret"
    /\ prev_cycle.val_c = W(TailAddr)
    /\ prev_cycle.val_b = W(StackTop)
    /\ result = "Running"

\* the table of condition predicates of the specification
CondTable(fun, sf, zf, of) ==
    CASE fun = "Ucnd" -> TRUE
      [] fun = "Lte" -> (sf # of) \/ zf
      [] fun = "Lt" -> sf # of
      [] fun = "Eq" -> zf
      [] fun = "Neq" -> ~zf
      [] fun = "Gte" -> ~(sf # of) /\ ~zf
      [] fun = "Gt" -> ~(sf # of)

\* C4: for every predicate and every (sign, zero, overflow) the condition that a
\* conditional move or jump evaluates is the one of the table: always = true,
\* <= is (sf xor of) or zf, < is sf xor of, = is zf, != is not zf,
\* >= is not (sf xor of) and not zf, > is not (sf xor of).
C4_CondTruthTable ==
    (LastOk /\ cycle_state.op \in {"Cmov", "Jxx"})
    => cycle_state.cnd = CondTable(cycle_state.fun, flags[1], flags[2], flags[3])

\* ---- the arithmetic/logic-ops, bit by bit
WordBits == 0..63
Bit(w, i) == (w[(i \div 16) + 1] \div (2 ^ (i % 16))) % 2

\* the carry into bit i of a + b + cin, b complemented when neg
RECURSIVE BitCarry(_, _, _, _, _)
BitCarry(a, b, neg, cin, i) ==
    IF i = 0 THEN cin
    ELSE LET bb == IF neg THEN 1 - Bit(b, i - 1) ELSE Bit(b, i - 1)
         IN  (Bit(a, i - 1) + bb + BitCarry(a, b, neg, cin, i - 1)) \div 2

\* res is a + b (a - b when neg) in 64-bit two's complement
IsSum(res, a, b, neg) ==
    LET cin == IF neg THEN 1 ELSE 0
    IN  \A i \in WordBits :
            Bit(res, i) = (Bit(a, i) + (IF neg THEN 1 - Bit(b, i) ELSE Bit(b, i))
                           + BitCarry(a, b, neg, cin, i)) % 2

\* the signed sum (difference) is outside the two's-complement range: the carry
\* into the sign bit differs from the carry out of it
SignedOverflow(a, b, neg) ==
    LET cin == IF neg THEN 1 ELSE 0
    IN  BitCarry(a, b, neg, cin, 64) # BitCarry(a, b, neg, cin, 63)

IsAnd(res, a, b) == \A i \in WordBits : Bit(res, i) = Bit(a, i) * Bit(b, i)
IsXor(res, a, b) == \A i \in WordBits : Bit(res, i) = (Bit(a, i) + Bit(b, i)) % 2

\* C5: a completed arithmetic/logic-op leaves in rB the add, sub (valB - valA),
\* and or xor of (valB, valA), the sign flag = result negative, the zero flag =
\* result zero, the overflow flag = the add or sub overflowed the signed range,
\* and overflow false after and, xor.
C5_OpxResultAndFlags ==
    (LastOk /\ cycle_state.op = "Opx")
    => LET a == cycle_state.val_a
           b == cycle_state.val_b
           res == regs[cycle_state.r_b]
       IN  /\ cycle_state.fun = "Add" => IsSum(res, b, a, FALSE)
                                         /\ flags[3] = SignedOverflow(b, a, FALSE)
           /\ cycle_state.fun = "Sub" => IsSum(res, b, a, TRUE)
                                         /\ flags[3] = SignedOverflow(b, a, TRUE)
           /\ cycle_state.fun = "And" => IsAnd(res, b, a) /\ ~flags[3]
           /\ cycle_state.fun = "Xor" => IsXor(res, b, a) /\ ~flags[3]
           /\ flags[1] = (Bit(res, 63) = 1)
           /\ flags[2] = (\A i \in WordBits : Bit(res, i) = 0)

\* a subtraction of unequal operands that overflowed has completed
C5_Witness ==
    /\ LastOk
    /\ cycle_state.op = "Opx"
    /\ cycle_state.fun = "Sub"
    /\ cycle_state.val_a = W(1)
    /\ cycle_state.val_b = MinW
    /\ regs[cycle_state.r_b] = MaxW
    /\ flags = <<FALSE, FALSE, TRUE>>

\* C6: adding 1 to the largest positive word completes, leaves the smallest
\* negative word in the destination, and sets overflow and sign and clears zero.
C6_AddOverflowWraps ==
    (/\ cycle_state.op = "Opx"
     /\ cycle_state.fun = "Add"
     /\ {cycle_state.val_a, cycle_state.val_b} = {MaxW, W(1)})
    => /\ error = ""
       /\ result = "Running"
       /\ regs[cycle_state.r_b] = MinW
       /\ flags = <<TRUE, FALSE, TRUE>>

\* the maximum was loaded, 1 added to it, in a build that checks overflow
C6_Witness ==
    /\ LastTwoOk
    /\ prev_cycle.op = "Irmov"
    /\ prev_cycle.val_c = MaxW
    /\ cycle_state.op = "Opx"
    /\ cycle_state.fun = "Add"
    /\ cycle_state.val_b = MaxW
    /\ cycle_state.val_a = W(1)
    /\ regs[cycle_state.r_b] = MinW
    /\ overflow_checks

\* a step of the model in which a pass of the loop of run is executed
CycleRuns == Cycle \/ CycleErr \/ CyclePanic

\* C7: the status changes only from Aok to Halt (there is no other terminal
\* status), never back, and once it is terminal no cycle is executed.
C7_StatusTransitions ==
    [][/\ status' # status => (status = "Aok" /\ status' \in {"Halt", "Err"})
       /\ status \in {"Halt", "Err"} => ~CycleRuns]_vars

\* the machine has halted and run, called again, is back in its loop head
C7_Witness ==
    /\ status = "Halt"
    /\ runs = 2
    /\ result = "Running"
    /\ cycle > 0

\* C8: when a stage fails run stops with the status Errored and returns the error.
C8_FailureSetsErrored ==
    result = "Err" => (status = "Err" /\ error # "")

\* C9: a cycle that fails leaves memory, registers, flags, pc and the cycle
\* counter as they were.
C9_FailedCycleKeepsState ==
    [][(result = "Running" /\ result' \in {"Err", "Panic"})
       => UNCHANGED <<mem, regs, flags, pc, cycle>>]_vars

\* a pop into register 15 has failed in writeback, after its load from a valid
\* stack address
C9_Witness ==
    /\ result = "Err"
    /\ error = "bad reg for pop"
    /\ cycle_state.op = "Pop"
    /\ cycle_state.r_a = 15
    /\ cycle_state.val_e = W(StackTop)

\* C10: once the status is Halt, a call of run executes no cycle, returns Ok and
\* leaves status, pc, registers, flags, memory and the cycle counter unchanged.
C10_HaltIdempotent ==
    [][status = "Halt"
       => /\ UNCHANGED <<status, pc, regs, flags, mem, cycle>>
          /\ result = "Running" => result' = "Ok"]_vars

\* run, called on a halted machine, has returned Ok
C10_Witness ==
    /\ status = "Halt"
    /\ runs = 2
    /\ result = "Ok"
    /\ cycle_state = NewCycleState

\* ---- the error values of the taxonomy, by the message the code bails with
AddressOutOfBounds ==
    {"bad addr", "get word: bad addr", "set word: bad addr",
     "bad reg in rmmov/opx", "bad reg in cmov/mrmov", "bad reg in call",
     "bad reg in ret/pop", "bad reg in push", "bad reg for irmov",
     "bad reg for mrmov", "bad reg for call/ret/push", "bad reg for pop"}
InvalidEncoding ==
    {"bad ifun for cmov", "bad ifun for opx", "bad ifun for jxx", "bad icode",
     "bad fun for Opx"}

\* the cycle that is about to run, up to and including its register reads
Operands == ThenDecode(fetch(Machine, NewCycleState, overflow_checks), overflow_checks)

\* the 8-byte word at the signed address w lies inside [0, MemSize)
WordInside(w) == ~IsNeg(w) /\ Small(w) /\ Num(w) + WordSize <= MemSize

\* the same for the integers a + b and a - b, which may lie outside the word range
SumInside(a, b) == ~overflowing_add(a, b)[2] /\ WordInside(overflowing_add(a, b)[1])
DiffInside(a, b) == ~overflowing_sub(a, b)[2] /\ WordInside(overflowing_sub(a, b)[1])

MemOps == {"Rmmov", "Mrmov", "Call", "Push", "Ret", "Pop"}

\* the word that the memory stage of the instruction accesses lies inside memory:
\* base + displacement, the stack pointer - 8, or the stack pointer
AccessInside(st) ==
    CASE st.op \in {"Rmmov", "Mrmov"} -> SumInside(st.val_b, st.val_c)
      [] st.op \in {"Call", "Push"} -> DiffInside(st.val_b, W(8))
      [] st.op \in {"Ret", "Pop"} -> WordInside(st.val_b)
      [] OTHER -> TRUE

\* C11: a store, load, call, push, return or pop whose 8-byte word does not lie
\* entirely inside memory fails with an AddressOutOfBounds error value, also for
\* negative addresses and for base + displacement sums that overflow the word;
\* the access is never wrapped to an address inside memory and the run does not
\* end in any other way.
C11_MemoryAccessBounds ==
    [][(/\ InLoop
        /\ Operands.err = ""
        /\ Operands.st.op \in MemOps
        /\ ~AccessInside(Operands.st))
       => /\ result' = "Err"
          /\ error' \in {"get word: bad addr", "set word: bad addr"}]_vars

\* ---- the first byte of an instruction
\* the opcode nibble, or the function nibble of an opcode that takes one, has no
\* mapping
Unmapped(byte) ==
    \/ byte \div 16 >= 12
    \/ byte \div 16 \in {2, 7} /\ byte % 16 > 6
    \/ byte \div 16 = 6 /\ byte % 16 > 3

\* the opcodes that take no function code, by their nibble
NoFunOp(hi) ==
    CASE hi = 0 -> "Halt" [] hi = 1 -> "Nop" [] hi = 3 -> "Irmov" [] hi = 4 -> "Rmmov"
      [] hi = 5 -> "Mrmov" [] hi = 8 -> "Call" [] hi = 9 -> "Ret" [] hi = 10 -> "Push"
      [] hi = 11 -> "Pop" [] OTHER -> "none"

\* what fetch leaves in the CycleState
Decoded(st) == <<st.op, st.fun, st.r_a, st.r_b, st.val_c, st.val_p>>

\* the machine with the function nibble of the byte at pc cleared
ClearedFun == [Machine EXCEPT !.mem[Num(pc)] = 16 * (mem[Num(pc)] \div 16)]

\* C12: a cycle fails with InvalidEncoding exactly when the opcode nibble is
\* 0xC..0xF, or the opcode is a conditional move or jump with a function nibble
\* above 6, or an arithmetic/logic-op with one above 3; an opcode that takes no
\* function code decodes to the same instruction whatever its low nibble is.
C12_InvalidEncoding ==
    [][(InLoop /\ MemHas(Machine, pc))
       => /\ (error' \in InvalidEncoding) <=> Unmapped(mem[Num(pc)])
          /\ NoFunOp(mem[Num(pc)] \div 16) # "none"
             => /\ cycle_state'.op = NoFunOp(mem[Num(pc)] \div 16)
                /\ cycle_state'.fun = "None"
                /\ error' = RunCycle(ClearedFun, overflow_checks).err
                /\ Decoded(cycle_state')
                     = Decoded(RunCycle(ClearedFun, overflow_checks).st)]_vars

\* an immediate-load whose first byte is 0x3f has completed
C12_Witness ==
    /\ LastOk
    /\ cycle = 1
    /\ mem[0] = 63
    /\ cycle_state.op = "Irmov"
    /\ regs[cycle_state.r_b] = cycle_state.val_c

\* the number of bytes of the instruction that the opcode nibble announces
Length(hi) ==
    CASE hi \in {0, 1, 9} -> 1
      [] hi \in {2, 6, 10, 11} -> 2
      [] hi \in {3, 4, 5} -> 10
      [] hi \in {7, 8} -> 9
      [] OTHER -> 1

\* the instruction at pc has a byte at or past the end of memory
PastEnd == Num(pc) + Length(mem[Num(pc)] \div 16) > MemSize

\* the cycle ends run with an AddressOutOfBounds error of fetch
FetchFails == result' = "Err" /\ error' \in {"bad addr", "get word: bad addr"}

\* a jump, call or return whose own accesses are in range completes and sets pc,
\* wherever the target lies
TransferCompletes ==
    (InLoop /\ Operands.err = "" /\ AccessInside(Operands.st))
    => /\ Operands.st.op = "Jxx"
          => /\ error' = ""
             /\ pc' \in {Operands.st.val_c, Operands.st.val_p}
       /\ Operands.st.op = "Call" => error' = "" /\ pc' = Operands.st.val_c
       /\ Operands.st.op = "Ret"
          => error' = "" /\ pc' = FromBytes(Machine, Num(Operands.st.val_b))

\* C13 as stated: a cycle fails with AddressOutOfBounds whenever pc is not a
\* memory index or a byte of the instruction at pc (its register-pair byte, one
\* of its 8 immediate bytes) lies at or past the end of memory; a jump, call or
\* return to a pc outside memory completes and the next cycle fails.
C13_DecodePastEnd ==
    [][/\ (InLoop /\ ~MemHas(Machine, pc)) => FetchFails
       /\ (InLoop /\ MemHas(Machine, pc) /\ PastEnd) => FetchFails
       /\ TransferCompletes]_vars

\* C13, amended: the same for an instruction whose nibbles are mapped; a first
\* byte with an unmapped nibble fails with InvalidEncoding wherever it lies.
C13_DecodePastEndOfMapped ==
    [][/\ (InLoop /\ ~MemHas(Machine, pc)) => FetchFails
       /\ (InLoop /\ MemHas(Machine, pc) /\ PastEnd /\ ~Unmapped(mem[Num(pc)]))
          => FetchFails
       /\ (InLoop /\ MemHas(Machine, pc) /\ Unmapped(mem[Num(pc)]))
          => result' = "Err" /\ error' \in InvalidEncoding
       /\ TransferCompletes]_vars

\* a jump to the largest word has completed and the fetch after it has failed
C13_Witness ==
    /\ result = "Err"
    /\ error = "bad addr"
    /\ prev_cycle.op = "Jxx"
    /\ prev_cycle.val_c = MaxW
    /\ pc = MaxW
    /\ cycle = 1

\* the memory holds an immediate-load into a register below 15, a halt, and
\* nothing else
IsLoadHalt ==
    /\ mem[0] = 48
    /\ mem[10] = 0
    /\ mem[1] \div 16 = 15
    /\ mem[1] % 16 < NumRegs
    /\ mem = LoadHalt(FromBytes(Machine, 2), mem[1] % 16)

\* C14: the program "immediate-load of V into R; halt", for every register R and
\* value V, runs to completion: run returns Ok with R = V, every other register
\* 0, the flags as they were and the status Halt (Scenario A is V = 10).
C14_LoadThenHalt ==
    (IsLoadHalt /\ runs = 1)
    => /\ result \in {"Running", "Ok"}
       /\ error = ""
       /\ (result = "Ok" \/ cycle = 2)
          => /\ status = "Halt"
             /\ regs = [i \in 0..(NumRegs - 1) |->
                          IF i = mem[1] % 16 THEN FromBytes(Machine, 2) ELSE ZeroW]
             /\ flags = <<FALSE, FALSE, FALSE>>
             /\ cycle = 2
       /\ (result = "Running" /\ cycle < 2) => status = "Aok"

\* Scenario A on the last register: run has returned and %r14 is 10
C14_Witness ==
    /\ mem = LoadHalt(W(10), 14)
    /\ result = "Ok"
    /\ status = "Halt"
    /\ regs[14] = W(10)
    /\ runs = 1

\* C15: a run under any step mode goes through the machine states of the run
\* without stepping and ends as it does: every pass of the loop leaves the
\* machine that the unstepped pass leaves from the same machine, a run that
\* fails does so where the unstepped pass fails and with its error, and a run
\* that panics does so where the unstepped pass panics.
C15_StepModeEquivalence ==
    /\ (result \in {"Running", "Ok"} /\ stage = "Head" /\ cycle = head.cycle + 1)
       => /\ RunCycle(head, overflow_checks).err = ""
          /\ RunCycle(head, overflow_checks).m = Machine
    /\ result \in {"Err", "Panic"}
       => /\ RunCycle(head, overflow_checks).err = error
          /\ RunCycle(head, overflow_checks).m = Machine

\* C16: every instruction that fetch decodes has valP = pc + length, the length
\* 1 for halt, nop and return, 2 for arithmetic/logic-op, conditional move, push
\* and pop, 10 for immediate-load, store and load, 9 for call and jump.
C16_ValPIsPcPlusLength ==
    [][(InLoop /\ fetch(Machine, NewCycleState, overflow_checks).err = "")
       => /\ cycle_state'.op = Operands.st.op
          /\ cycle_state'.val_p = wrapping_add(pc, W(Length(mem[Num(pc)] \div 16)))
          /\ cycle_state'.op \in {"Halt", "Nop", "Ret"}
             <=> cycle_state'.val_p = wrapping_add(pc, W(1))
          /\ cycle_state'.op \in {"Opx", "Cmov", "Push", "Pop"}
             <=> cycle_state'.val_p = wrapping_add(pc, W(2))
          /\ cycle_state'.op \in {"Irmov", "Rmmov", "Mrmov"}
             <=> cycle_state'.val_p = wrapping_add(pc, W(10))
          /\ cycle_state'.op \in {"Call", "Jxx"}
             <=> cycle_state'.val_p = wrapping_add(pc, W(9))]_vars

\* a call at address 20 has completed with valP = 29
C16_Witness ==
    /\ LastOk
    /\ cycle_state.op = "Call"
    /\ cycle_state.val_p = W(29)
    /\ prev_cycle.val_p = W(20)
    /\ pc = cycle_state.val_c

\* the pc that the instruction of a completed cycle is to leave, the predicate of
\* a jump taken from the table of the specification
TablePc(st, m) ==
    CASE st.op = "Jxx" ->
            IF CondTable(st.fun, m.flags[1], m.flags[2], m.flags[3])
            THEN st.val_c ELSE st.val_p
      [] st.op = "Ret" -> FromBytes(m, Num(m.regs[RSP]))
      [] st.op = "Call" -> st.val_c
      [] OTHER -> st.val_p

\* C17: a completed cycle leaves pc = valC after a jump whose predicate holds and
\* valP after one whose predicate does not, the word at the old stack pointer
\* after a return, valC after a call and valP after every other instruction; a
\* halt at p leaves pc = p + 1 and sets the status Halt in the same cycle.
C17_NextPc ==
    [][CycleStep
       => /\ pc' = TablePc(cycle_state', Machine)
          /\ cycle_state'.op = "Halt"
             => pc' = wrapping_add(pc, W(1)) /\ status' = "Halt"
          /\ status' = "Halt" => cycle_state'.op = "Halt"]_vars

\* C18: only a cycle of an arithmetic/logic-op writes the flags: a cycle of any
\* other opcode leaves sign, zero and overflow as they were, whether it completes
\* or fails.
C18_FlagsFrame ==
    [][/\ (result = "Running" /\ cycle_state'.op # "Opx") => flags' = flags
       /\ (InLoop /\ (~MemHas(Machine, pc) \/ mem[Num(pc)] \div 16 # 6))
          => flags' = flags]_vars

\* an addition has set sign and overflow, and the conditional move after it has
\* completed and left them
C18_Witness ==
    /\ LastTwoOk
    /\ prev_cycle.op = "Opx"
    /\ cycle_state.op = "Cmov"
    /\ flags = <<TRUE, FALSE, TRUE>>
    /\ cycle = 4

\* C19: a completed conditional move rA, rB (both below 15) leaves in rB the
\* value of rA when the predicate holds under the flags and the value of rB when
\* it does not, changes no other register, no flag and no memory byte, and
\* leaves pc = valP.
C19_CondMove ==
    [][(CycleStep /\ cycle_state'.op = "Cmov")
       => /\ regs' = [regs EXCEPT ![cycle_state'.r_b] =
                        IF CondTable(cycle_state'.fun, flags[1], flags[2], flags[3])
                        THEN regs[cycle_state'.r_a] ELSE regs[cycle_state'.r_b]]
          /\ flags' = flags
          /\ mem' = mem
          /\ pc' = wrapping_add(pc, W(2))
          /\ pc' = cycle_state'.val_p]_vars

\* the instruction reads or writes a register through an operand nibble of 15
UsesNibble15(st) ==
    \/ st.op \in {"Opx", "Rmmov", "Cmov", "Mrmov"} /\ (st.r_a = 15 \/ st.r_b = 15)
    \/ st.op = "Irmov" /\ st.r_b = 15
    \/ st.op \in {"Push", "Pop"} /\ st.r_a = 15

\* C20: an instruction that reads or writes a register through an operand nibble
\* of 15 (rA or rB of an arithmetic/logic-op, store or conditional move, rB of a
\* load or immediate-load, rA of a load, push or pop) fails in its cycle with an
\* AddressOutOfBounds error, and no register is written in its place.
C20_RegisterFifteen ==
    [][(/\ InLoop
        /\ fetch(Machine, NewCycleState, overflow_checks).err = ""
        /\ UsesNibble15(fetch(Machine, NewCycleState, overflow_checks).st))
       => /\ result' = "Err"
          /\ error' \in AddressOutOfBounds
          /\ regs' = regs]_vars

\* the machine after n passes of the loop from m
RECURSIVE Passes(_, _, _)
Passes(m, n, oc) == IF n = 0 THEN m ELSE RunCycle(Passes(m, n - 1, oc), oc).m

\* C21: the cycle counter goes up by one in every pass of the loop that
\* completes and changes in no other step, a failing pass included; once the
\* machine has halted the counter is the number of instructions executed from
\* the loaded image, the halt being the last of them.
C21_CycleCounter ==
    /\ [][/\ (result = "Running" /\ result' = "Running") => cycle' = cycle + 1
          /\ ~(result = "Running" /\ result' = "Running") => cycle' = cycle]_vars
    /\ [](status = "Halt"
          => /\ cycle > 0
             /\ cycle_state.op = "Halt" \/ cycle_state = NewCycleState
             /\ Passes(head, cycle, overflow_checks) = Machine
             /\ \A k \in 0..(cycle - 1) :
                   Passes(head, k, overflow_checks).status = "Aok")

\* a jump to the halt at TailAddr: the machine has halted after five instructions
C21_Witness ==
    /\ status = "Halt"
    /\ result = "Ok"
    /\ runs = 1
    /\ cycle = 5
    /\ prev_cycle.op = "Jxx"

\* what the stages read and write of the machine: all but the cycle counter
Visible == <<mem, regs, flags, status, pc>>

\* C22 as stated: every run of run ends, halted or with a fatal error, and none
\* executes cycles forever; so no pass of the loop leaves the machine, which
\* decides every later pass, as it found it.
C22_RunTerminates ==
    [][(result = "Running" /\ result' = "Running") => Visible' # Visible]_vars

\* C22, amended: a run that returns has halted the machine (Ok) or returns the
\* error of the stage that failed, and nothing else ends the loop; a program
\* that jumps to itself keeps the run in its loop, pass after pass.
C22_RunEndsHaltedOrFailed ==
    /\ [](result = "Ok" => status = "Halt")
    /\ [](result = "Err" => error \in AddressOutOfBounds \cup InvalidEncoding)
    /\ [][/\ (result = "Running" /\ result' = "Ok") => UNCHANGED <<Visible, cycle>>
          /\ (result = "Running" /\ result' = "Running" /\ Visible' = Visible
                /\ cycle' < MaxCycles)
             => InLoop']_vars

\* the jump to itself at address 0 has run three times and is about to run again
C22_Witness ==
    /\ mem = Place(ZeroMem, 0, jxx(0, ZeroW))
    /\ result = "Running"
    /\ cycle = 3
    /\ pc = ZeroW
    /\ cycle_state.op = "Jxx"
    /\ status = "Aok"

\* byte j of the word, least significant first, from its bits
ByteOfBits(w, j) ==
    Bit(w, 8 * j) + 2 * Bit(w, 8 * j + 1) + 4 * Bit(w, 8 * j + 2) + 8 * Bit(w, 8 * j + 3)
      + 16 * Bit(w, 8 * j + 4) + 32 * Bit(w, 8 * j + 5) + 64 * Bit(w, 8 * j + 6)
      + 128 * Bit(w, 8 * j + 7)

\* C23: a store of rA to D(rB) at an address inside memory, directly followed by
\* a load from D(rB) into a register rC, both completing, leaves in rC the value
\* V that rA held, for negative V as for positive, and the 8 bytes of V, least
\* significant first, in memory from the address on.
C23_StoreLoadRoundTrip ==
    (/\ LastTwoOk
     /\ prev_cycle.op = "Rmmov"
     /\ cycle_state.op = "Mrmov"
     /\ cycle_state.r_b = prev_cycle.r_b
     /\ cycle_state.val_c = prev_cycle.val_c
     /\ SumInside(prev_cycle.val_b, prev_cycle.val_c))
    => /\ regs[cycle_state.r_a] = prev_cycle.val_a
       /\ \A j \in 0..(WordSize - 1) :
             mem[Num(prev_cycle.val_e) + j] = ByteOfBits(prev_cycle.val_a, j)

\* the smallest negative word was stored at TailAddr + 8 and loaded back into
\* the base register
C23_Witness ==
    /\ LastTwoOk
    /\ prev_cycle.op = "Rmmov"
    /\ prev_cycle.val_a = MinW
    /\ prev_cycle.val_e = W(TailAddr + 8)
    /\ cycle_state.op = "Mrmov"
    /\ cycle_state.r_a = 3
    /\ cycle_state.val_e = W(TailAddr + 8)
    /\ regs[3] = MinW

\* the address that a store, call or push writes at: base + displacement, or the
\* stack pointer - 8, as machine words
WriteAddr(st) ==
    IF st.op = "Rmmov" THEN wrapping_add(regs[st.r_b], st.val_c)
    ELSE wrapping_sub(regs[RSP], W(8))

\* C24: memory bytes change only in a completed cycle of a store, call or push,
\* and only among the 8 bytes from valE on (base + displacement, or the old stack
\* pointer - 8); every other cycle, and every failing one, leaves memory as it
\* was, and the memory size and the number of registers (15) never change.
C24_MemoryFrame ==
    [][/\ DOMAIN mem' = 0..(MemSize - 1)
       /\ DOMAIN regs' = 0..(NumRegs - 1)
       /\ mem' # mem
          => /\ result = "Running" /\ result' = "Running" /\ error' = ""
             /\ cycle_state'.op \in {"Rmmov", "Call", "Push"}
             /\ Small(WriteAddr(cycle_state'))
             /\ \A i \in DOMAIN mem :
                   mem'[i] # mem[i]
                   => /\ i >= Num(WriteAddr(cycle_state'))
                      /\ i < Num(WriteAddr(cycle_state')) + WordSize]_vars

\* a push of 7 with the stack pointer at the top of memory has completed and
\* the word below the top holds 7
C24_Witness ==
    /\ LastOk
    /\ cycle_state.op = "Push"
    /\ cycle_state.val_b = W(StackTop)
    /\ mem[StackTop - WordSize] = 7
    /\ regs[RSP] = W(StackTop - WordSize)

\* the memory m with the bytes of the line l at l.addr, l.addr + 1, ..., as far as
\* the memory goes
Written(m, l) ==
    [i \in 0..(MemSize - 1) |->
        IF i >= l.addr /\ i < l.addr + Len(l.bytes) THEN l.bytes[i - l.addr + 1] ELSE m[i]]

\* a step of load that reads a line
LineStep == result = "Loading" /\ result' # "Ok"

\* C25: load writes the bytes of a line 0xADDR: HEXBYTES|..., each pair of
\* hexadecimal digits of either case giving 16 * hi + lo, in order to the memory at
\* ADDR, ADDR + 1, ...; a line that does not begin with 0x changes nothing; the
\* bytes whose address is at or beyond the memory size are dropped, the bytes
\* written before them stay, the memory keeps its size, and load goes on to the
\* lines after it.
C25_ProgramLoad ==
    [][LineStep =>
          /\ line'.form = "object" => mem' = Written(mem, line') /\ result' = "Loading"
          /\ line'.form = "skipped" => mem' = mem /\ result' = "Loading"
          /\ DOMAIN mem' = 0..(MemSize - 1)]_vars

\* load has read a line of two bytes at the last address of the memory: the first
\* byte is there, the second is dropped, and load goes on
C25_Witness ==
    /\ result = "Loading"
    /\ line.form = "object"
    /\ line.addr = MemSize - 1
    /\ Len(line.bytes) = 2
    /\ mem[MemSize - 1] = line.bytes[1]
    /\ line.bytes[1] # line.bytes[2]

====
